---- MODULE Spec2Model ----
(***************************************************************************)
(* Phase 0 meta-dataset workflow (src/workflows/meta_workflow.py) and the  *)
(* deck-type counting of src/analytics/meta_analytics.py.                  *)
(*                                                                         *)
(* The LangGraph state (MetaState) is the set of variables below; every    *)
(* node of the compiled graph is one action; pc is the node the graph runs *)
(* next.  The environment of one run is fixed in Init: the seed of the     *)
(* module-level random generator (rng) and the answers the Clash Royale    *)
(* API gives for each player tag (world).                                  *)
(***************************************************************************)
EXTENDS Integers, Sequences, FiniteSets, TLC

VARIABLES
    top_players,          \* MetaState.top_players: sequence of [tag |-> ...]
    selected_players,     \* MetaState.selected_players: batch being fetched
    used_player_indices,  \* MetaState.used_player_indices: set of 0-based indices
    fetched_player_tags,  \* MetaState.fetched_player_tags
    meta_raw_battles,     \* MetaState.meta_raw_battles (the Cohort)
    normalized_battles,   \* MetaState.normalized_battles (mirror of the Cohort)
    meta_analytics,       \* MetaState.meta_analytics
    is_balanced,          \* MetaState.is_balanced
    loop_count,           \* MetaState.loop_count
    stop_decision,        \* MetaState.stop_decision
    notes,                \* MetaState.notes
    pc,                   \* node the graph executes next ("END" when finished)
    rng,                  \* state of the random generator behind random.sample
    world,                \* what the API answers during this run
    history,              \* names of the nodes executed so far, in order
    batches,              \* index batches returned by random.sample, in order
    requested,            \* tags passed to get_player_battlelog, in order
    player_tag,           \* UserAnalyticsState.player_tag
    battles_raw,          \* UserAnalyticsState.battles_raw
    battles_filtered,     \* UserAnalyticsState.battles_filtered
    user_analytics,       \* UserAnalyticsState.user_analytics
    error                 \* exception that ended the run ("" if none)

vars == <<top_players, selected_players, used_player_indices, fetched_player_tags,
          meta_raw_battles, normalized_battles, meta_analytics, is_balanced,
          loop_count, stop_decision, notes, pc, rng, world, history, batches,
          requested, player_tag, battles_raw, battles_filtered, user_analytics, error>>

\* The keys of MetaState (without notes) and the environment of a meta run
metaVars == <<top_players, selected_players, used_player_indices, fetched_player_tags,
              meta_raw_battles, normalized_battles, meta_analytics, is_balanced,
              loop_count, stop_decision, rng, world, batches, requested>>

\* The keys of UserAnalyticsState (without notes) and the exception of a user run
userVars == <<player_tag, battles_raw, battles_filtered, user_analytics, error>>

----------------------------------------------------------------------------
(* Program constants *)

MIN_TOTAL_BATTLES == 500
MIN_GAMES_PER_TYPE == 50
REQUIRED_DECK_TYPES_LOWER == <<"siege", "bait", "cycle", "bridge spam", "beatdown">>
TOP_PLAYERS_LIMIT == 300     \* fetch_top_players(limit=300)
INITIAL_SAMPLE_SIZE == 50    \* min(50, len(all_indices))
MORE_SAMPLE_SIZE == 5        \* min(5, len(unused_indices))
MAX_LOOPS == 20              \* loop_count >= 20
RECENT_BATTLES_CAP == 10     \* min(len(normalized), 10)
RECURSION_LIMIT == 80        \* driver: config["recursion_limit"]

(* Bounds of the model *)

MaxSeed == 1             \* seeds of the random generator: 0..MaxSeed
MaxSmallPopulation == 1  \* small population sizes: 0..MaxSmallPopulation
MaxFailPeriod == 2       \* failure patterns of the battlelog API: 0..MaxFailPeriod
MaxLogLen == 11          \* longest normalized battlelog of one player
MaxRows == 2             \* most opp_deck_types rows of an analytics input
MaxRawLen == 3           \* longest raw battlelog of the user analytics run

----------------------------------------------------------------------------
(* Python values *)

\* list(f): the function f on 1..n as a sequence value
List(f) == << >> \o f

\* A dict is kept in insertion order: a sequence of [k |-> key, v |-> value]
\* with pairwise different keys.
EmptyDict == << >>

DictKeys(d) == {d[i].k : i \in 1..Len(d)}

DictGet(d, key, default) ==
    IF key \in DictKeys(d)
    THEN (CHOOSE e \in {d[i] : i \in 1..Len(d)} : e.k = key).v
    ELSE default

\* d[key] = value: a present key keeps its position and takes the new value.
DictPut(d, key, value) ==
    IF key \in DictKeys(d)
    THEN List([i \in 1..Len(d) |-> IF d[i].k = key THEN [k |-> key, v |-> value] ELSE d[i]])
    ELSE Append(d, [k |-> key, v |-> value])

Min(a, b) == IF a <= b THEN a ELSE b
Max(a, b) == IF a >= b THEN a ELSE b

\* str.lower() on the deck-type labels that occur
Lower(s) ==
    CASE s = "Siege" -> "siege"
      [] s = "SIEGE" -> "siege"
      [] s = " Siege" -> " siege"
      [] s = "Bait" -> "bait"
      [] s = "Cycle" -> "cycle"
      [] s = "Bridge Spam" -> "bridge spam"
      [] s = "Beatdown" -> "beatdown"
      [] s = "Hybrid" -> "hybrid"
      [] OTHER -> s

\* str.strip() on the deck-type labels that occur
Strip(s) ==
    CASE s = " siege" -> "siege"
      [] s = "siege " -> "siege"
      [] s = " Siege" -> "Siege"
      [] OTHER -> s

----------------------------------------------------------------------------
(* The environment of a run *)

NoTag == << >>            \* a player entry without a usable "tag"
TagOf(n) == <<n>>         \* the tag of the player ranked n

LabelSchemes == {"title", "required", "siege"}
LogLenModes == {"full", "varied"}

\* What the Clash Royale API answers during one run:
\*   failEvery  0: no battlelog request fails; k > 0: the request for every
\*              k-th tag raises (1: every request raises)
\*   lens       length of a player's normalized ranked 1v1 battlelog
\*   labels     opponent deck-type labels of the normalized battles
\*   tagless    the first leaderboard entry carries no tag
Worlds ==
    {w \in [failEvery : 0..MaxFailPeriod, lens : LogLenModes,
            labels : LabelSchemes, tagless : BOOLEAN] :
        w.tagless => (w.failEvery = 0 /\ w.lens = "varied")}

Seeds == 0..MaxSeed

\* Sizes of the list fetch_top_players(limit=300) may return
PopulationSizes ==
    {n \in 0..TOP_PLAYERS_LIMIT :
        \/ n <= MaxSmallPopulation
        \/ n \in {INITIAL_SAMPLE_SIZE, INITIAL_SAMPLE_SIZE + 1,
                  INITIAL_SAMPLE_SIZE + MORE_SAMPLE_SIZE * MAX_LOOPS,
                  INITIAL_SAMPLE_SIZE + MORE_SAMPLE_SIZE * MAX_LOOPS + 1,
                  TOP_PLAYERS_LIMIT}}

\* fetch_top_players(limit): the leaderboard, best rank first
fetch_top_players(w, size) ==
    List([i \in 1..size |-> [tag |-> IF w.tagless /\ i = 1 THEN NoTag ELSE TagOf(i)]])

LabelsOf(scheme) ==
    CASE scheme = "title" -> <<"Siege", "Bait", "Cycle", "Bridge Spam", "Beatdown", "Hybrid">>
      [] scheme = "required" -> <<"Siege", "Bait", "Cycle", "Bridge Spam", "Beatdown">>
      [] OTHER -> <<"siege">>

LogLenOf(w, tag) ==
    IF w.lens = "full" THEN MaxLogLen ELSE tag[1] % (MaxLogLen + 1)

\* filter_and_normalize_ranked_1v1(get_player_battlelog(tag)): either call
\* may raise; otherwise the normalized battles, most recent first.
Battlelog(w, tag) ==
    IF w.failEvery > 0 /\ tag[1] % w.failEvery = 0
    THEN [ok |-> FALSE, error |-> "timeout", battles |-> << >>]
    ELSE [ok |-> TRUE, error |-> "",
          battles |-> List([j \in 1..LogLenOf(w, tag) |->
                        [tag |-> tag,
                         opp_deck_type |->
                            LabelsOf(w.labels)[((tag[1] + j) % Len(LabelsOf(w.labels))) + 1]]])]

\* One step of the random generator, and random.sample(population, k):
\* k draws without replacement from a copy of the population; the result is in
\* selection order.
NextRandom(r) == (r * 75 + 74) % 65537

\* One selection of random.sample: result.append(pool[j]) for a random j,
\* then the last pool entry takes the place of the selected one.
DrawOne(st) ==
    LET n == Len(st.pool)
        j == (st.rng % n) + 1
    IN  [pool |-> List([i \in 1..(n - 1) |-> IF i = j THEN st.pool[n] ELSE st.pool[i]]),
         rng |-> NextRandom(st.rng),
         sample |-> Append(st.sample, st.pool[j])]

\* k selections in a row.  (The k iterations are run as two halves, and the
\* state between them is bound as the element of a one-element set: the value
\* is then computed once and the evaluation stays shallow.  The other loops
\* below are written the same way.)
RECURSIVE Draw(_, _)
Draw(st, k) ==
    IF k = 0 THEN st
    ELSE IF k = 1 THEN DrawOne(st)
    ELSE CHOOSE out \in {Draw(half, k - (k \div 2)) : half \in {Draw(st, k \div 2)}} : TRUE

RandomSample(population, k, r) ==
    CHOOSE out \in {Draw(st, k) : st \in {[pool |-> population, rng |-> r, sample |-> << >>]}} :
        TRUE

----------------------------------------------------------------------------
(* Notes *)

\* Mutant: "notes = []" -- a node starts from an empty list.
CopyNotes_StartsEmpty(state_notes) == << >>

\* notes = list(state.get("notes", [])): a node appends to a copy of the
\* notes of the state and returns it
CopyNotes(state_notes) == state_notes

Note(node, kind, tag, nums, text, dict) ==
    [node |-> node, kind |-> kind, tag |-> tag, nums |-> nums, text |-> text,
     insufficient_types |-> dict]

----------------------------------------------------------------------------
(* src/analytics: compute_user_analytics and compute_meta_analytics *)

\* compute_user_analytics(battles): the part of its result the workflow reads.
\* summary.games_played is the number of battles; opp_deck_types holds one row
\* per opponent deck-type label, in order of first appearance, with the number
\* of battles against it.
compute_user_analytics(battles) ==
    LET labels == {battles[i].opp_deck_type : i \in 1..Len(battles)}
        First(l) == CHOOSE i \in 1..Len(battles) :
                        /\ battles[i].opp_deck_type = l
                        /\ \A j \in 1..(i - 1) : battles[j].opp_deck_type # l
        Games(l) == Cardinality({i \in 1..Len(battles) : battles[i].opp_deck_type = l})
        Rank(l) == Cardinality({m \in labels : First(m) < First(l)}) + 1
    IN  [summary |-> [games_played |-> Len(battles)],
         opp_deck_types |->
            List([r \in 1..Cardinality(labels) |->
                    LET l == CHOOSE m \in labels : Rank(m) = r
                    IN  [type |-> l, games |-> Games(l)]])]

\* deck_type_counts_opp = {str(row["type"]).strip(): int(row["games"]) for row in rows}
RECURSIVE DeckTypeCountsOpp(_, _)
DeckTypeCountsOpp(rows, acc) ==
    IF rows = << >>
    THEN acc
    ELSE CHOOSE out \in
             {DeckTypeCountsOpp(Tail(rows), d) :
                d \in {DictPut(acc, Strip(Head(rows).type), Head(rows).games)}} : TRUE

\* compute_meta_analytics after the call of compute_user_analytics: adds
\* games_total, deck_type_counts_opp and source to the analytics dict.
AddMetaFields(analytics, n_battles) ==
    [summary |-> analytics.summary,
     opp_deck_types |-> analytics.opp_deck_types,
     games_total |-> IF "games_played" \in DOMAIN analytics.summary
                     THEN analytics.summary.games_played
                     ELSE n_battles,
     deck_type_counts_opp |-> DeckTypeCountsOpp(analytics.opp_deck_types, EmptyDict),
     source |-> "meta"]

\* Mutant: the oldest battle of the Cohort is left out of the analytics.
compute_meta_analytics_SkipsOldest(battles_normalized) ==
    AddMetaFields(compute_user_analytics(
                      IF battles_normalized = << >> THEN << >> ELSE Tail(battles_normalized)),
                  Len(battles_normalized))

compute_meta_analytics(battles_normalized) ==
    AddMetaFields(compute_user_analytics(battles_normalized), Len(battles_normalized))

----------------------------------------------------------------------------
(* Helpers of the nodes *)

\* all_indices = list(range(len(top_players)))
AllIndices(players) == List([i \in 1..Len(players) |-> i - 1])

\* Mutant: the filter on used_indices is dropped.
UnusedIndices_KeepsUsed(players, used) == AllIndices(players)

\* unused_indices = [i for i in all_indices if i not in used_indices]
UnusedIndices(players, used) ==
    SelectSeq(AllIndices(players), LAMBDA i : i \notin used)

\* Mutant: the initial sample misses one player.
InitialSampleSize_OneShort(n) == Min(INITIAL_SAMPLE_SIZE, n - 1)

\* sample_size = min(50, len(all_indices))
InitialSampleSize(n) == Min(INITIAL_SAMPLE_SIZE, n)

\* Mutant: all unused players are sampled at once.
MoreSampleSize_Uncapped(n) == n

\* sample_size = min(5, len(unused_indices))
MoreSampleSize(n) == Min(MORE_SAMPLE_SIZE, n)

\* [top_players[i] for i in indices]
PlayersAt(players, indices) == List([j \in 1..Len(indices) |-> players[indices[j] + 1]])

SeqToSet(q) == {q[i] : i \in 1..Len(q)}

\* Mutant: the sampled indices are not recorded.
MarkUsed_Forgets(used, indices) == used

\* used_indices.update(sampled_indices)
MarkUsed(used, indices) == used \cup SeqToSet(indices)

\* Mutant: the whole normalized battlelog is taken.
TakeRecent_All(normalized) == normalized

\* recent_ranked = normalized[:min(len(normalized), 10)]
TakeRecent(normalized) ==
    SubSeq(normalized, 1, Min(Len(normalized), RECENT_BATTLES_CAP))

\* Mutant: the new battles replace the cohort.
Extend_Replaces(meta_raw, recent_ranked) == recent_ranked

\* meta_raw.extend(recent_ranked)
Extend(meta_raw, recent_ranked) == meta_raw \o recent_ranked

\* the guards of the fetch loop: "if not tag" and "if tag in fetched_tags"
SkipPlayer(tag, fetched_tags) == tag = NoTag \/ tag \in fetched_tags

\* Mutant: "except Exception: pass" -- a failure leaves no note.
FetchOne_SilentFailure(w, player, acc) ==
    LET tag == player.tag
    IN  IF SkipPlayer(tag, acc.fetched_tags)
        THEN acc
        ELSE LET res == Battlelog(w, tag)
                 recent_ranked == TakeRecent(res.battles)
                 asked == Append(acc.requested, tag)
             IN  IF res.ok
                 THEN [meta_raw |-> Extend(acc.meta_raw, recent_ranked),
                       new_battle_count |-> acc.new_battle_count + Len(recent_ranked),
                       new_player_count |-> acc.new_player_count + 1,
                       fetched_tags |-> acc.fetched_tags \cup {tag},
                       notes |-> acc.notes,
                       requested |-> asked]
                 ELSE [acc EXCEPT !.requested = asked]

\* One iteration of "for player in selected" in fetch_meta_battles_node
FetchOne(w, player, acc) ==
    LET tag == player.tag
    IN  IF SkipPlayer(tag, acc.fetched_tags)
        THEN acc
        ELSE LET res == Battlelog(w, tag)
                 recent_ranked == TakeRecent(res.battles)
                 asked == Append(acc.requested, tag)
             IN  IF res.ok
                 THEN [meta_raw |-> Extend(acc.meta_raw, recent_ranked),
                       new_battle_count |-> acc.new_battle_count + Len(recent_ranked),
                       new_player_count |-> acc.new_player_count + 1,
                       fetched_tags |-> acc.fetched_tags \cup {tag},
                       notes |-> acc.notes,
                       requested |-> asked]
                 ELSE [acc EXCEPT
                         !.notes = Append(@, Note("fetch_meta_battles", "error", tag,
                                                  << >>, res.error, EmptyDict)),
                         !.requested = asked]

\* for player in selected[lo..hi], in order
RECURSIVE FetchLoop(_, _, _, _, _)
FetchLoop(w, selected, lo, hi, acc) ==
    IF lo > hi THEN acc
    ELSE IF lo = hi
    THEN CHOOSE out \in {FetchOne(w, selected[lo], a) : a \in {acc}} : TRUE
    ELSE LET mid == (lo + hi) \div 2
         IN  CHOOSE out \in
                 {FetchLoop(w, selected, mid + 1, hi, a) :
                    a \in {FetchLoop(w, selected, lo, mid, acc)}} : TRUE

\* games_total = int(meta.get("games_total", len(state.get("meta_raw_battles", []))))
GamesTotal(meta, meta_raw) ==
    IF "games_total" \in DOMAIN meta THEN meta.games_total ELSE Len(meta_raw)

\* deck_counts_raw = meta.get("deck_type_counts_opp", {})
DeckCountsRaw(meta) ==
    IF "deck_type_counts_opp" \in DOMAIN meta THEN meta.deck_type_counts_opp ELSE EmptyDict

\* deck_counts_lower = {str(k).lower(): int(v) for k, v in deck_counts_raw.items()}
RECURSIVE DeckCountsLower(_, _)
DeckCountsLower(items, acc) ==
    IF items = << >>
    THEN acc
    ELSE CHOOSE out \in
             {DeckCountsLower(Tail(items), d) :
                d \in {DictPut(acc, Lower(Head(items).k), Head(items).v)}} : TRUE

\* Mutant: hybrid is held to the minimum as well.
InsufficientTypes_WithHybrid(required, deck_counts_lower, acc) ==
    LET low == SelectSeq(required \o <<"hybrid">>,
                         LAMBDA t : DictGet(deck_counts_lower, t, 0) < MIN_GAMES_PER_TYPE)
    IN  List([i \in 1..Len(low) |-> [k |-> low[i], v |-> DictGet(deck_counts_lower, low[i], 0)]])

\* for t in REQUIRED_DECK_TYPES_LOWER: ... insufficient_types[t] = count
RECURSIVE InsufficientTypes(_, _, _)
InsufficientTypes(required, deck_counts_lower, acc) ==
    IF required = << >>
    THEN acc
    ELSE LET t == Head(required)
             count == DictGet(deck_counts_lower, t, 0)
         IN  CHOOSE out \in
                 {InsufficientTypes(Tail(required), deck_counts_lower, d) :
                    d \in {IF count < MIN_GAMES_PER_TYPE THEN DictPut(acc, t, count) ELSE acc}} :
                 TRUE

\* Mutant: the used players are not subtracted.
Remaining_IgnoresUsed(players, used) == Len(players)

\* remaining = max(0, len(top_players) - len(used_indices))
Remaining(players, used) == Max(0, Len(players) - Cardinality(used))

\* Mutant: the loop budget is not tested.
CannotLoop_NoLoopCap(remaining, loops) == remaining <= 0

\* Mutant: "remaining < 0" for "remaining <= 0".
CannotLoop_StrictRemaining(remaining, loops) == remaining < 0 \/ loops >= MAX_LOOPS

\* Mutant: "loop_count > 20" for "loop_count >= 20".
CannotLoop_LateCap(remaining, loops) == remaining <= 0 \/ loops > MAX_LOOPS

\* if remaining <= 0 or loop_count >= 20
CannotLoop(remaining, loops) == remaining <= 0 \/ loops >= MAX_LOOPS

\* Mutant: one of the two thresholds is enough.
Decide_EitherThreshold(enough_total, enough_per_type, remaining, loops) ==
    IF enough_total \/ enough_per_type
    THEN "enough"
    ELSE IF CannotLoop_NoLoopCap(remaining, 0) \/ loops >= MAX_LOOPS THEN "stop" ELSE "need_more"

\* the if/else ladder of check_enough_battles_node
Decide(enough_total, enough_per_type, remaining, loops) ==
    IF enough_total /\ enough_per_type
    THEN "enough"
    ELSE IF CannotLoop(remaining, loops) THEN "stop" ELSE "need_more"

\* Mutant: only "stop" leaves the dataset unbalanced.
IsBalanced_UnlessStop(decision) == decision # "stop"

\* is_balanced = True in the "enough" branch, False in the other two
IsBalanced(decision) == decision = "enough"

route_after_check_enough(decision) ==
    IF decision \in {"enough", "need_more", "stop"} THEN decision ELSE "stop"

\* Mutant: "stop" is mapped to sample_more_5.
EdgeAfterCheck_StopLoops(route) ==
    IF route \in {"need_more", "stop"} THEN "sample_more_5" ELSE "END"

\* Mutant: "need_more" is mapped back to the entry point.
EdgeAfterCheck_Restarts(route) ==
    IF route = "need_more" THEN "fetch_top_players" ELSE "END"

\* Mutant: every route is mapped to END.
EdgeAfterCheck_AlwaysEnd(route) == "END"

\* the edge map of add_conditional_edges
EdgeAfterCheck(route) ==
    IF route = "need_more" THEN "sample_more_5" ELSE "END"

----------------------------------------------------------------------------
(* The run *)

\* No user analytics run: the keys of UserAnalyticsState are absent.
NoUserRun ==
    /\ player_tag = << >>
    /\ battles_raw = << >>
    /\ battles_filtered = << >>
    /\ user_analytics = << >>
    /\ error = ""

\* graph.invoke({"notes": []}): every other key of the state is still absent
\* and reads as its state.get default.
Init ==
    /\ top_players = << >>
    /\ selected_players = << >>
    /\ used_player_indices = {}
    /\ fetched_player_tags = {}
    /\ meta_raw_battles = << >>
    /\ normalized_battles = << >>
    /\ meta_analytics = EmptyDict
    /\ is_balanced = FALSE
    /\ loop_count = 0
    /\ stop_decision = ""
    /\ notes = << >>
    /\ pc = "fetch_top_players"
    /\ rng \in Seeds
    /\ world \in Worlds
    /\ history = << >>
    /\ batches = << >>
    /\ requested = << >>
    /\ NoUserRun

Ran(node, next) ==
    /\ history' = Append(history, node)
    /\ pc' = next
    /\ UNCHANGED userVars

fetch_top_players_node ==
    /\ pc = "fetch_top_players"
    /\ \E size \in PopulationSizes :
          LET players == fetch_top_players(world, size)
          IN  /\ top_players' = players
              /\ notes' = Append(CopyNotes(notes), Note("fetch_top_players", "fetched", NoTag,
                                             <<Len(players)>>, "", EmptyDict))
    /\ selected_players' = << >>
    /\ used_player_indices' = {}
    /\ fetched_player_tags' = {}
    /\ meta_raw_battles' = << >>
    /\ normalized_battles' = << >>
    /\ meta_analytics' = EmptyDict
    /\ is_balanced' = FALSE
    /\ loop_count' = 0
    /\ stop_decision' = ""
    /\ Ran("fetch_top_players", "sample_initial_50")
    /\ UNCHANGED <<rng, world, batches, requested>>

sample_initial_50_node ==
    /\ pc = "sample_initial_50"
    /\ IF top_players = << >>
       THEN /\ notes' = Append(CopyNotes(notes), Note("sample_initial_50", "warning_empty", NoTag,
                                           << >>, "", EmptyDict))
            /\ selected_players' = << >>
            /\ UNCHANGED <<used_player_indices, rng, batches>>
       ELSE LET all_indices == AllIndices(top_players)
                sample_size == InitialSampleSize(Len(all_indices))
                drawn == RandomSample(all_indices, sample_size, rng)
                sampled_indices == drawn.sample
            IN  /\ selected_players' = PlayersAt(top_players, sampled_indices)
                /\ used_player_indices' = MarkUsed(used_player_indices, sampled_indices)
                /\ notes' = Append(CopyNotes(notes), Note("sample_initial_50", "sampled", NoTag,
                                               <<Len(sampled_indices), Len(top_players)>>,
                                               "", EmptyDict))
                /\ rng' = drawn.rng
                /\ batches' = Append(batches, sampled_indices)
    /\ Ran("sample_initial_50", "fetch_meta_battles")
    /\ UNCHANGED <<top_players, fetched_player_tags, meta_raw_battles, normalized_battles,
                   meta_analytics, is_balanced, loop_count, stop_decision, world, requested>>

sample_more_5_node ==
    /\ pc = "sample_more_5"
    /\ IF top_players = << >>
       THEN /\ notes' = Append(CopyNotes(notes), Note("sample_more_5", "warning_empty", NoTag,
                                           << >>, "", EmptyDict))
            /\ selected_players' = << >>
            /\ UNCHANGED <<used_player_indices, loop_count, rng, batches>>
       ELSE LET unused_indices == UnusedIndices(top_players, used_player_indices)
            IN  IF unused_indices = << >>
                THEN /\ notes' = Append(CopyNotes(notes), Note("sample_more_5", "no_unused", NoTag,
                                                    << >>, "", EmptyDict))
                     /\ selected_players' = << >>
                     /\ UNCHANGED <<used_player_indices, loop_count, rng, batches>>
                ELSE LET sample_size == MoreSampleSize(Len(unused_indices))
                         drawn == RandomSample(unused_indices, sample_size, rng)
                         new_indices == drawn.sample
                         used_indices == MarkUsed(used_player_indices, new_indices)
                     IN  /\ selected_players' = PlayersAt(top_players, new_indices)
                         /\ used_player_indices' = used_indices
                         /\ loop_count' = loop_count + 1
                         /\ notes' = Append(CopyNotes(notes), Note("sample_more_5", "sampled", NoTag,
                                                 <<loop_count + 1, Len(new_indices),
                                                   Cardinality(used_indices), Len(top_players)>>,
                                                 "", EmptyDict))
                         /\ rng' = drawn.rng
                         /\ batches' = Append(batches, new_indices)
    /\ Ran("sample_more_5", "fetch_meta_battles")
    /\ UNCHANGED <<top_players, fetched_player_tags, meta_raw_battles, normalized_battles,
                   meta_analytics, is_balanced, stop_decision, world, requested>>

fetch_meta_battles_node ==
    /\ pc = "fetch_meta_battles"
    /\ IF selected_players = << >>
       THEN /\ notes' = Append(CopyNotes(notes), Note("fetch_meta_battles", "nothing_to_fetch", NoTag,
                                           << >>, "", EmptyDict))
            /\ normalized_battles' = meta_raw_battles
            /\ UNCHANGED <<meta_raw_battles, fetched_player_tags, requested>>
       ELSE LET done == FetchLoop(world, selected_players, 1, Len(selected_players),
                                  [meta_raw |-> meta_raw_battles,
                                   new_battle_count |-> 0,
                                   new_player_count |-> 0,
                                   fetched_tags |-> fetched_player_tags,
                                   notes |-> CopyNotes(notes),
                                   requested |-> requested])
            IN  /\ meta_raw_battles' = done.meta_raw
                /\ normalized_battles' = done.meta_raw
                /\ fetched_player_tags' = done.fetched_tags
                /\ notes' = Append(done.notes,
                                   Note("fetch_meta_battles", "fetched", NoTag,
                                        <<done.new_battle_count, done.new_player_count,
                                          Len(done.meta_raw)>>, "", EmptyDict))
                /\ requested' = done.requested
    /\ Ran("fetch_meta_battles", "compute_meta_analytics")
    /\ UNCHANGED <<top_players, selected_players, used_player_indices, meta_analytics,
                   is_balanced, loop_count, stop_decision, rng, world, batches>>

compute_meta_analytics_node ==
    /\ pc = "compute_meta_analytics"
    /\ LET analytics == compute_meta_analytics(meta_raw_battles)
       IN  /\ meta_analytics' = analytics
           /\ notes' = Append(CopyNotes(notes), Note("compute_meta_analytics", "computed", NoTag,
                                          <<analytics.games_total,
                                            Len(analytics.opp_deck_types)>>, "", EmptyDict))
    /\ Ran("compute_meta_analytics", "check_enough_battles")
    /\ UNCHANGED <<top_players, selected_players, used_player_indices, fetched_player_tags,
                   meta_raw_battles, normalized_battles, is_balanced, loop_count,
                   stop_decision, rng, world, batches, requested>>

check_enough_battles_node ==
    /\ pc = "check_enough_battles"
    /\ LET games_total == GamesTotal(meta_analytics, meta_raw_battles)
           deck_counts_lower == DeckCountsLower(DeckCountsRaw(meta_analytics), EmptyDict)
           insufficient_types ==
               InsufficientTypes(REQUIRED_DECK_TYPES_LOWER, deck_counts_lower, EmptyDict)
           enough_total == games_total >= MIN_TOTAL_BATTLES
           enough_per_type == Len(insufficient_types) = 0
           remaining == Remaining(top_players, used_player_indices)
           decision == Decide(enough_total, enough_per_type, remaining, loop_count)
       IN  /\ stop_decision' = decision
           /\ is_balanced' = IsBalanced(decision)
           /\ notes' = Append(CopyNotes(notes),
                   IF decision = "enough"
                   THEN Note("check_enough_battles", "enough", NoTag,
                             <<games_total, MIN_GAMES_PER_TYPE>>, "", EmptyDict)
                   ELSE Note("check_enough_battles", decision, NoTag,
                             <<games_total, remaining, loop_count>>, "", insufficient_types))
           /\ Ran("check_enough_battles", EdgeAfterCheck(route_after_check_enough(decision)))
    /\ UNCHANGED <<top_players, selected_players, used_player_indices, fetched_player_tags,
                   meta_raw_battles, normalized_battles, meta_analytics, loop_count,
                   rng, world, batches, requested>>

Next ==
    \/ fetch_top_players_node
    \/ sample_initial_50_node
    \/ sample_more_5_node
    \/ fetch_meta_battles_node
    \/ compute_meta_analytics_node
    \/ check_enough_battles_node

Spec == Init /\ [][Next]_vars

\* graph.invoke keeps executing the node that pc names until the graph reaches
\* END: a node that is due is eventually run.
RunNode == pc # "END" /\ history' = Append(history, pc)

FairSpec == Spec /\ WF_history(RunNode)

----------------------------------------------------------------------------
(* The deck-type counting on its own: compute_meta_analytics from the point   *)
(* where compute_user_analytics has returned, followed by the evaluation.     *)

RowLabels == {"Siege", "siege", " siege", "bait", "Hybrid"}
RowGames == {30, 60}
Rows == [type : RowLabels, games : RowGames]

RECURSIVE SumGames(_)
SumGames(rows) == IF rows = << >> THEN 0 ELSE Head(rows).games + SumGames(Tail(rows))

\* Results of compute_user_analytics: up to MaxRows opp_deck_types rows with
\* pairwise different labels
AnalyticsInputs ==
    {[summary |-> [games_played |-> SumGames(rows)], opp_deck_types |-> rows] :
        rows \in {q \in UNION {[1..n -> Rows] : n \in 0..MaxRows} :
                     \A i, j \in 1..Len(q) : i # j => q[i].type # q[j].type}}

InitCounts ==
    /\ top_players = << >>
    /\ selected_players = << >>
    /\ used_player_indices = {}
    /\ fetched_player_tags = {}
    /\ meta_raw_battles = << >>
    /\ normalized_battles = << >>
    /\ meta_analytics \in AnalyticsInputs
    /\ is_balanced = FALSE
    /\ loop_count = 0
    /\ stop_decision = ""
    /\ notes = << >>
    /\ pc = "compute_meta_analytics"
    /\ rng = 0
    /\ world \in {w \in Worlds : w.failEvery = 0 /\ w.lens = "full" /\ w.labels = "title"}
    /\ history = << >>
    /\ batches = << >>
    /\ requested = << >>
    /\ NoUserRun

\* compute_meta_analytics_node on the analytics that compute_user_analytics
\* returned
add_meta_fields ==
    /\ pc = "compute_meta_analytics"
    /\ LET analytics == AddMetaFields(meta_analytics, Len(meta_raw_battles))
       IN  /\ meta_analytics' = analytics
           /\ notes' = Append(CopyNotes(notes), Note("compute_meta_analytics", "computed", NoTag,
                                          <<analytics.games_total,
                                            Len(analytics.opp_deck_types)>>, "", EmptyDict))
    /\ Ran("compute_meta_analytics", "check_enough_battles")
    /\ UNCHANGED <<top_players, selected_players, used_player_indices, fetched_player_tags,
                   meta_raw_battles, normalized_battles, is_balanced, loop_count,
                   stop_decision, rng, world, batches, requested>>

NextCounts == add_meta_fields \/ check_enough_battles_node

CountsSpec == InitCounts /\ [][NextCounts]_vars

----------------------------------------------------------------------------
(* The node functions called on their own: one call of one node on a state   *)
(* drawn from a bounded set, which includes states that no run of the graph  *)
(* hands to that node (sample_more_5 with every index used, a node called    *)
(* before the state has its keys).                                           *)

Nodes == {"fetch_top_players", "sample_initial_50", "sample_more_5",
          "fetch_meta_battles", "compute_meta_analytics", "check_enough_battles"}

InitCall ==
    /\ world \in {w \in Worlds : w.lens = "full" /\ w.labels = "title" /\ ~w.tagless}
    /\ rng \in Seeds
    /\ top_players \in {fetch_top_players(world, size) : size \in PopulationSizes}
    /\ used_player_indices \in
          {{}, {i - 1 : i \in 1..Len(top_players)},
           {i \in 0..(Len(top_players) - 1) : i % 2 = 0}}
    /\ selected_players \in
          {<< >>, SubSeq(top_players, 1, Min(Len(top_players), MORE_SAMPLE_SIZE))}
    /\ fetched_player_tags = {}
    /\ meta_raw_battles \in {<< >>, TakeRecent(Battlelog([world EXCEPT !.failEvery = 0],
                                                         TagOf(TOP_PLAYERS_LIMIT)).battles)}
    /\ normalized_battles = meta_raw_battles
    /\ meta_analytics \in {EmptyDict, compute_meta_analytics(meta_raw_battles)}
    /\ is_balanced = FALSE
    /\ loop_count \in {0, MAX_LOOPS}
    /\ stop_decision = ""
    /\ notes = IF loop_count = 0
               THEN << >>
               ELSE <<Note("fetch_top_players", "fetched", NoTag, <<Len(top_players)>>,
                           "", EmptyDict)>>
    /\ pc \in Nodes
    /\ history = << >>
    /\ batches = << >>
    /\ requested = << >>
    /\ NoUserRun

NextCall ==
    \/ history = << >> /\ fetch_top_players_node
    \/ history = << >> /\ sample_initial_50_node
    \/ history = << >> /\ sample_more_5_node
    \/ history = << >> /\ fetch_meta_battles_node
    \/ history = << >> /\ compute_meta_analytics_node
    \/ history = << >> /\ check_enough_battles_node

CallSpec == InitCall /\ [][NextCall]_vars

----------------------------------------------------------------------------
(* The Phase 1 user analytics workflow (src/workflows/user_workflow.py):      *)
(* fetch_battlelog -> filter_and_normalize -> compute_user_analytics -> END.  *)
(* A node that raises ends the run: pc becomes "RAISED" and error names the   *)
(* exception.                                                                 *)

RawKinds == {"ranked", "friendly"}

\* The raw battlelogs the API may return for a tag, most recent battle first
RawLogs(tag) ==
    {List([i \in DOMAIN kinds |->
              [tag |-> tag, kind |-> kinds[i], opp_deck_type |-> "Siege"]]) :
        kinds \in UNION {[1..n -> RawKinds] : n \in 0..MaxRawLen}}

\* get_player_battlelog(tag): the call returns a raw battlelog or raises
get_player_battlelog(tag) ==
    {[ok |-> TRUE, battles |-> log] : log \in RawLogs(tag)}
        \cup {[ok |-> FALSE, battles |-> << >>]}

\* filter_and_normalize_ranked_1v1(raw_log): the ranked 1v1 battles of the
\* log, in order, each in normalized form
filter_and_normalize_ranked_1v1(raw_log) ==
    LET ranked == SelectSeq(raw_log, LAMBDA b : b.kind = "ranked")
    IN  List([i \in 1..Len(ranked) |->
                [tag |-> ranked[i].tag, opp_deck_type |-> ranked[i].opp_deck_type]])

\* Mutant: the guard of a node never fires.
Missing_Never(value) == FALSE

\* "if not player_tag", "if not battles_raw", "if not battles_filtered": the
\* key is absent or its value is empty
Missing(value) == value = << >>

\* graph.invoke({"player_tag": ...}): the caller gives the tag, or leaves it
\* out, and may give earlier notes.
InitUser ==
    /\ top_players = << >>
    /\ selected_players = << >>
    /\ used_player_indices = {}
    /\ fetched_player_tags = {}
    /\ meta_raw_battles = << >>
    /\ normalized_battles = << >>
    /\ meta_analytics = EmptyDict
    /\ is_balanced = FALSE
    /\ loop_count = 0
    /\ stop_decision = ""
    /\ notes \in {<< >>, <<Note("caller", "given", NoTag, << >>, "", EmptyDict)>>}
    /\ pc = "fetch_battlelog"
    /\ rng = 0
    /\ world \in {w \in Worlds : w.failEvery = 0 /\ w.lens = "full" /\ w.labels = "title"}
    /\ history = << >>
    /\ batches = << >>
    /\ requested = << >>
    /\ player_tag \in {NoTag, TagOf(1), TagOf(2)}
    /\ battles_raw = << >>
    /\ battles_filtered = << >>
    /\ user_analytics = << >>
    /\ error = ""

\* A node raised: the graph stops and graph.invoke propagates the exception.
Raise(node, exception) ==
    /\ history' = Append(history, node)
    /\ pc' = "RAISED"
    /\ error' = exception
    /\ UNCHANGED <<notes, player_tag, battles_raw, battles_filtered, user_analytics>>

\* A node returned: the returned keys are written and the edge is followed.
Returned(node, next) ==
    /\ history' = Append(history, node)
    /\ pc' = next
    /\ UNCHANGED <<player_tag, error>>

fetch_battlelog_node ==
    /\ pc = "fetch_battlelog"
    /\ IF Missing(player_tag)
       THEN Raise("fetch_battlelog", "ValueError")
       ELSE \E answer \in get_player_battlelog(player_tag) :
                IF ~answer.ok
                THEN Raise("fetch_battlelog", "Exception")
                ELSE /\ battles_raw' = answer.battles
                     /\ notes' = Append(notes, Note("fetch_battlelog", "fetched", player_tag,
                                                    <<Len(answer.battles)>>, "", EmptyDict))
                     /\ Returned("fetch_battlelog", "filter_and_normalize")
                     /\ UNCHANGED <<battles_filtered, user_analytics>>
    /\ UNCHANGED metaVars

filter_and_normalize_node ==
    /\ pc = "filter_and_normalize"
    /\ IF Missing(battles_raw)
       THEN Raise("filter_and_normalize", "ValueError")
       ELSE LET filtered == filter_and_normalize_ranked_1v1(battles_raw)
            IN  /\ battles_filtered' = filtered
                /\ notes' = Append(notes, Note("filter_and_normalize", "filtered", NoTag,
                                               <<Len(filtered)>>, "", EmptyDict))
                /\ Returned("filter_and_normalize", "compute_user_analytics")
                /\ UNCHANGED <<battles_raw, user_analytics>>
    /\ UNCHANGED metaVars

compute_user_analytics_node ==
    /\ pc = "compute_user_analytics"
    /\ IF Missing(battles_filtered)
       THEN Raise("compute_user_analytics", "ValueError")
       ELSE LET analytics == compute_user_analytics(battles_filtered)
            IN  /\ user_analytics' = analytics
                /\ notes' = Append(notes, Note("compute_user_analytics", "computed", NoTag,
                                               <<analytics.summary.games_played>>, "",
                                               EmptyDict))
                /\ Returned("compute_user_analytics", "END")
                /\ UNCHANGED <<battles_raw, battles_filtered>>
    /\ UNCHANGED metaVars

NextUser ==
    \/ fetch_battlelog_node
    \/ filter_and_normalize_node
    \/ compute_user_analytics_node

UserSpec == InitUser /\ [][NextUser]_vars

----------------------------------------------------------------------------
(* Properties *)

Executions(node) == Cardinality({i \in 1..Len(history) : history[i] = node})

LastNode == IF history = << >> THEN "" ELSE history[Len(history)]

PopulationIndices == {i - 1 : i \in 1..Len(top_players)}

\* C1: no duplicate sampling.  The index batches drawn by sample_initial_50 and
\* by every sample_more_5 are pairwise disjoint, hold no index twice, lie in
\* [0, len(top_players)), and used_player_indices is their union, so its size
\* is the number of participants sampled and at most the population size.
C1_NoDuplicateSampling ==
    /\ \A i, j \in 1..Len(batches) :
          i # j => SeqToSet(batches[i]) \cap SeqToSet(batches[j]) = {}
    /\ \A i \in 1..Len(batches) : SeqToSet(batches[i]) \subseteq PopulationIndices
    /\ used_player_indices = UNION {SeqToSet(batches[i]) : i \in 1..Len(batches)}
    /\ Cardinality(used_player_indices) =
          Cardinality(UNION {{<<i, k>> : k \in 1..Len(batches[i])} : i \in 1..Len(batches)})
    /\ Cardinality(used_player_indices) <= Len(top_players)

\* C1 witness: the initial batch and two incremental batches have been drawn.
C1_Witness == Len(batches) >= 3 /\ Len(batches[3]) = MORE_SAMPLE_SIZE

CeilDiv(a, b) == (a + b - 1) \div b

OppCount(t) ==
    LET hits == {e \in SeqToSet(DeckCountsRaw(meta_analytics)) : Lower(e.k) = t}
    IN  IF hits = {} THEN 0 ELSE (CHOOSE e \in hits : TRUE).v

ThresholdsMet ==
    /\ GamesTotal(meta_analytics, meta_raw_battles) >= MIN_TOTAL_BATTLES
    /\ \A t \in SeqToSet(REQUIRED_DECK_TYPES_LOWER) : OppCount(t) >= MIN_GAMES_PER_TYPE

MayLoop ==
    /\ PopulationIndices \ used_player_indices # {}
    /\ loop_count < MAX_LOOPS

\* C3: decision correctness.  Right after check_enough_battles, stop_decision is
\* "enough" iff the total and every required deck type reach their minimum;
\* otherwise "need_more" iff an unused index remains and loop_count < 20;
\* otherwise "stop".
C3_DecisionCorrect ==
    LastNode = "check_enough_battles" =>
        /\ (stop_decision = "enough") <=> ThresholdsMet
        /\ (stop_decision = "need_more") <=> (~ThresholdsMet /\ MayLoop)
        /\ (stop_decision = "stop") <=> (~ThresholdsMet /\ ~MayLoop)

\* C3 witness: an evaluation with enough battles in total but a required deck
\* type below its minimum, and players left to sample.
C3_Witness ==
    /\ LastNode = "check_enough_battles"
    /\ GamesTotal(meta_analytics, meta_raw_battles) >= MIN_TOTAL_BATTLES
    /\ ~ThresholdsMet
    /\ stop_decision = "need_more"

\* C4: every run reaches END within RECURSION_LIMIT node executions.
C4_EndsWithinRecursionLimit ==
    Len(history) >= RECURSION_LIMIT => pc = "END"

\* The games of all opp_deck_types rows whose label, trimmed and lowercased, is t
MergedGames(t) ==
    SumGames(SelectSeq(meta_analytics.opp_deck_types,
                       LAMBDA row : Lower(Strip(row.type)) = t))

\* C5: labels that differ only by case or surrounding whitespace merge into one
\* bucket: the count the stopping policy uses for a required deck type is the
\* sum of the games of all rows whose normalized label is that type.
C5_VariantsMerge ==
    LastNode = "check_enough_battles" =>
        \A t \in SeqToSet(REQUIRED_DECK_TYPES_LOWER) :
            DictGet(DeckCountsLower(DeckCountsRaw(meta_analytics), EmptyDict), t, 0)
                = MergedGames(t)

SampledTags == {top_players[i + 1].tag : i \in used_player_indices}

\* C6: at-most-once retrieval.  No tag is passed to get_player_battlelog twice
\* in a run, whether its retrieval succeeded (the tag is in
\* fetched_player_tags) or failed; only sampled participants are requested,
\* and the fetched tags are among the requested ones.
C6_AtMostOnceRetrieval ==
    /\ \A i, j \in 1..Len(requested) : i # j => requested[i] # requested[j]
    /\ SeqToSet(requested) \subseteq SampledTags
    /\ fetched_player_tags \subseteq SeqToSet(requested)

\* C6 witness: a retrieval failed, and two more batches were sampled and
\* fetched after it.
C6_Witness ==
    /\ pc = "END"
    /\ loop_count >= 2
    /\ \E i \in 1..Len(requested) :
          /\ requested[i] \notin fetched_player_tags
          /\ i + 2 * MORE_SAMPLE_SIZE < Len(requested)

\* The players of the current batch that fetch_meta_battles_node asks for
BatchTags ==
    {selected_players[i].tag : i \in 1..Len(selected_players)}
        \ ({NoTag} \cup fetched_player_tags)

NewBattles == SubSeq(meta_raw_battles', Len(meta_raw_battles) + 1, Len(meta_raw_battles'))
NewNotes == SubSeq(notes', Len(notes) + 1, Len(notes'))

\* C7: a retrieval failure is recovered locally.  When fetch_meta_battles runs,
\* every participant of the batch whose retrieval raises gets a note with its
\* tag and the failure, no record and no fetched-tag entry; every participant
\* whose retrieval succeeds gets its (capped) records appended and is marked
\* fetched; the run goes on to compute_meta_analytics.
C7_FailureRecoveredLocally ==
    [][pc = "fetch_meta_battles" =>
        /\ pc' = "compute_meta_analytics"
        /\ \A tag \in BatchTags :
              LET res == Battlelog(world, tag)
                  mine == SelectSeq(NewBattles, LAMBDA b : b.tag = tag)
              IN  IF res.ok
                  THEN /\ tag \in fetched_player_tags'
                       /\ mine = SubSeq(res.battles, 1, Min(Len(res.battles), RECENT_BATTLES_CAP))
                  ELSE /\ tag \notin fetched_player_tags'
                       /\ mine = << >>
                       /\ \E i \in 1..Len(NewNotes) :
                             /\ NewNotes[i].kind = "error"
                             /\ NewNotes[i].tag = tag
                             /\ NewNotes[i].text = res.error]_vars

\* C7 witness: a batch was fetched in which one retrieval failed and another
\* one delivered records.
C7_Witness ==
    /\ LastNode = "fetch_meta_battles"
    /\ \E i, j \in 1..Len(selected_players) :
          /\ selected_players[i].tag # NoTag
          /\ selected_players[i].tag \notin fetched_player_tags
          /\ ~Battlelog(world, selected_players[i].tag).ok
          /\ selected_players[j].tag \in fetched_player_tags
          /\ \E k \in 1..Len(meta_raw_battles) :
                meta_raw_battles[k].tag = selected_players[j].tag
    /\ notes[Len(notes)].nums[1] > 0

\* C8: the Cohort is append-only: in every step the old meta_raw_battles is a
\* prefix of the new one.
C8_CohortAppendOnly ==
    [][/\ Len(meta_raw_battles') >= Len(meta_raw_battles)
       /\ SubSeq(meta_raw_battles', 1, Len(meta_raw_battles)) = meta_raw_battles]_vars

\* C8 witness: a fetch on a later iteration that added nothing to a non-empty
\* Cohort.
C8_Witness ==
    /\ LastNode = "fetch_meta_battles"
    /\ loop_count >= 1
    /\ meta_raw_battles # << >>
    /\ notes[Len(notes)].kind = "fetched"
    /\ notes[Len(notes)].nums[1] = 0

\* C9: with an empty population nothing is sampled or requested and
\* sample_more_5 never runs; the run ends after one evaluation with
\* stop_decision = "stop" and is_balanced = FALSE.
C9_EmptyPopulationStops ==
    (history # << >> /\ top_players = << >>) =>
        /\ used_player_indices = {}
        /\ batches = << >>
        /\ requested = << >>
        /\ fetched_player_tags = {}
        /\ Executions("sample_more_5") = 0
        /\ pc # "sample_more_5"
        /\ pc = "END" => /\ stop_decision = "stop"
                         /\ is_balanced = FALSE
                         /\ Executions("check_enough_battles") = 1

\* C9 witness: a finished run on an empty population.
C9_Witness == pc = "END" /\ top_players = << >>

\* C10: exhaustion stops the loop.  With at most 50 players the initial batch
\* draws all of them, sample_more_5 never runs, and the run ends after one
\* evaluation with "enough", or with "stop" and is_balanced = FALSE when the
\* thresholds are not met; and in no state without an unused index does
\* sample_more_5 run.
C10_ExhaustionStops ==
    /\ []((Len(top_players) <= INITIAL_SAMPLE_SIZE /\ Executions("sample_initial_50") = 1) =>
            /\ used_player_indices = PopulationIndices
            /\ Executions("sample_more_5") = 0
            /\ pc = "END" =>
                  /\ Executions("check_enough_battles") = 1
                  /\ stop_decision \in {"enough", "stop"}
                  /\ ~ThresholdsMet => (stop_decision = "stop" /\ is_balanced = FALSE))
    /\ [][(Executions("sample_initial_50") = 1 /\ PopulationIndices \subseteq used_player_indices)
             => history' # Append(history, "sample_more_5")]_vars

\* C10 witness: a run on exactly 50 players that ended with "stop".
C10_Witness ==
    /\ pc = "END"
    /\ Len(top_players) = INITIAL_SAMPLE_SIZE
    /\ stop_decision = "stop"
    /\ is_balanced = FALSE

\* The notes written by check_enough_battles, in order; the kind of each is
\* the decision it reports.
CheckNotes == SelectSeq(notes, LAMBDA n : n.node = "check_enough_battles")

ChecksBefore(i) ==
    Cardinality({j \in 1..(i - 1) : history[j] = "check_enough_battles"})

\* The node the stage order allows at position i of a run, given the nodes
\* before it and the decisions reported so far.
Expected(i) ==
    IF i = 1 THEN "fetch_top_players"
    ELSE LET p == history[i - 1]
         IN  CASE p = "fetch_top_players" -> "sample_initial_50"
               [] p = "sample_initial_50" -> "fetch_meta_battles"
               [] p = "sample_more_5" -> "fetch_meta_battles"
               [] p = "fetch_meta_battles" -> "compute_meta_analytics"
               [] p = "compute_meta_analytics" -> "check_enough_battles"
               [] p = "check_enough_battles" ->
                    IF CheckNotes[ChecksBefore(i)].kind = "need_more"
                    THEN "sample_more_5"
                    ELSE "END"

\* C11: stage ordering.  A run executes fetch_top_players, sample_initial_50,
\* then rounds of fetch_meta_battles, compute_meta_analytics,
\* check_enough_battles, with sample_more_5 between two rounds exactly when the
\* check before it decided "need_more"; an evaluation reads the analytics of
\* the Cohort as the latest fetch left it; nothing runs after a check that
\* decided "enough" or "stop".
C11_StageOrdering ==
    /\ \A i \in 1..Len(history) : history[i] = Expected(i)
    /\ pc = Expected(Len(history) + 1)
    /\ Len(CheckNotes) = Executions("check_enough_battles")
    /\ pc = "check_enough_battles" =>
          meta_analytics = compute_meta_analytics(meta_raw_battles)

\* C11 witness: a finished run with at least two rounds that ended on "enough".
C11_Witness ==
    /\ pc = "END"
    /\ Executions("sample_more_5") >= 2
    /\ stop_decision = "enough"

\* C12: DONE is reached only from an evaluation that decided "enough" or
\* "stop": in a final state stop_decision is one of the two, it is the decision
\* of the last evaluation, and that evaluation is the last node that ran.
C12_DoneOnlyFromEnoughOrStop ==
    pc = "END" =>
        /\ stop_decision \in {"enough", "stop"}
        /\ LastNode = "check_enough_battles"
        /\ CheckNotes[Len(CheckNotes)].kind = stop_decision

\* C12 witness: a run that ended on "stop" after evaluations that decided
\* "need_more".
C12_Witness ==
    /\ pc = "END"
    /\ stop_decision = "stop"
    /\ \E i \in 1..Len(CheckNotes) : CheckNotes[i].kind = "need_more"

\* C13: in every reachable state is_balanced is true iff stop_decision is
\* "enough".
C13_BalancedIffEnough == is_balanced <=> (stop_decision = "enough")

\* C13 witness: an evaluation decided "enough" after an earlier one decided
\* "need_more".
C13_Witness ==
    /\ is_balanced
    /\ LastNode = "check_enough_battles"
    /\ loop_count >= 1

\* C14: loop_count starts at 0, grows by exactly 1 in every sample_more_5 step
\* and is changed by no other step; it equals the number of sample_more_5
\* executions and never exceeds MAX_LOOPS.
C14_LoopCount ==
    /\ (history = << >> => loop_count = 0)
    /\ [](loop_count = Executions("sample_more_5") /\ loop_count <= MAX_LOOPS)
    /\ [][IF pc = "sample_more_5"
          THEN loop_count' = loop_count + 1
          ELSE loop_count' = loop_count]_vars

\* C14 witness: the loop budget is used up.
C14_Witness == loop_count = MAX_LOOPS /\ pc = "END"

\* C16: per-participant cap.  Every newly fetched participant contributes the
\* first RECENT_BATTLES_CAP battles of its normalized battlelog (all of them if
\* it has fewer), so the Cohort never holds more than RECENT_BATTLES_CAP
\* battles per fetched tag, and one fetch adds at most RECENT_BATTLES_CAP
\* battles per newly fetched participant.
C16_PerParticipantCap ==
    /\ [](Len(meta_raw_battles) <= RECENT_BATTLES_CAP * Cardinality(fetched_player_tags))
    /\ [][/\ Len(meta_raw_battles') - Len(meta_raw_battles)
                <= RECENT_BATTLES_CAP * Cardinality(fetched_player_tags' \ fetched_player_tags)
          /\ \A tag \in fetched_player_tags' \ fetched_player_tags :
                LET mine == SelectSeq(NewBattles, LAMBDA b : b.tag = tag)
                    log == Battlelog(world, tag).battles
                IN  /\ Len(mine) <= RECENT_BATTLES_CAP
                    /\ Len(mine) = Min(Len(log), RECENT_BATTLES_CAP)
                    /\ mine = SubSeq(log, 1, Len(mine))]_vars

\* C16 witness: every fetched participant had more than RECENT_BATTLES_CAP
\* normalized battles and contributed exactly RECENT_BATTLES_CAP.
C16_Witness ==
    /\ fetched_player_tags # {}
    /\ \A tag \in fetched_player_tags : Len(Battlelog(world, tag).battles) > RECENT_BATTLES_CAP
    /\ Len(meta_raw_battles) = RECENT_BATTLES_CAP * Cardinality(fetched_player_tags)

\* The number of Cohort records whose opponent deck type is t
Recount(t) ==
    Cardinality({i \in 1..Len(meta_raw_battles) :
                    Lower(Strip(meta_raw_battles[i].opp_deck_type)) = t})

WithHybrid(meta, h) ==
    LET others == SelectSeq(DeckCountsRaw(meta), LAMBDA entry : Lower(entry.k) # "hybrid")
    IN  [meta EXCEPT !.deck_type_counts_opp =
            IF h < 0 THEN others ELSE Append(others, [k |-> "Hybrid", v |-> h])]

HybridCounts == {-1, 0, MIN_GAMES_PER_TYPE - 1, MIN_GAMES_PER_TYPE, MIN_TOTAL_BATTLES}

\* The decision of check_enough_battles_node in the current state when
\* meta_analytics is meta
DecisionOn(meta) ==
    Decide(GamesTotal(meta, meta_raw_battles) >= MIN_TOTAL_BATTLES,
           Len(InsufficientTypes(REQUIRED_DECK_TYPES_LOWER,
                                 DeckCountsLower(DeckCountsRaw(meta), EmptyDict),
                                 EmptyDict)) = 0,
           Remaining(top_players, used_player_indices),
           loop_count)

\* C19: exemption of the non-required deck types.  The decision of an
\* evaluation is the same for every count of hybrid, present or absent, when
\* games_total, the counts of the five required types, the unused players and
\* loop_count are kept; and when the total and the five required counts reach
\* their minimum the decision is "enough".
C19_NonRequiredExempt ==
    LastNode = "check_enough_battles" =>
        /\ \A h \in HybridCounts : DecisionOn(WithHybrid(meta_analytics, h)) = stop_decision
        /\ ThresholdsMet => stop_decision = "enough"

\* C19 witness: an evaluation that decided "enough" with no hybrid battle in
\* the Cohort.
C19_Witness ==
    /\ LastNode = "check_enough_battles"
    /\ stop_decision = "enough"
    /\ OppCount("hybrid") = 0
    /\ Recount("hybrid") = 0

\* C20: sample_more_5 runs only on a non-empty population with an unused
\* index; its two early returns never happen; every execution returns a
\* non-empty batch and increments loop_count.
C20_SampleMoreNeverIdle ==
    /\ pc = "sample_more_5" =>
          /\ top_players # << >>
          /\ PopulationIndices \ used_player_indices # {}
    /\ \A i \in 1..Len(notes) :
          notes[i].node = "sample_more_5" =>
              /\ notes[i].kind = "sampled"
              /\ notes[i].nums[2] > 0
    /\ LastNode = "sample_more_5" => selected_players # << >>
    /\ Len(batches) = Executions("sample_more_5") + (IF used_player_indices = {} THEN 0 ELSE 1)
    /\ \A i \in 1..Len(batches) : batches[i] # << >>
    /\ loop_count = Len(SelectSeq(notes, LAMBDA n : n.node = "sample_more_5"))
    /\ Len(SelectSeq(notes, LAMBDA n : n.node = "sample_more_5")) = Executions("sample_more_5")

\* C20 witness: sample_more_5 returned a batch with fewer than
\* MORE_SAMPLE_SIZE players, the last unused ones.
C20_Witness ==
    /\ LastNode = "sample_more_5"
    /\ selected_players # << >>
    /\ Len(selected_players) < MORE_SAMPLE_SIZE
    /\ used_player_indices = PopulationIndices

\* The index batch drawn in a step (empty if none was drawn)
DrawnBatch == IF batches' = batches THEN << >> ELSE batches'[Len(batches')]

\* C15: batch sizes.  sample_initial_50_node selects exactly
\* min(50, population size) pairwise different indices and adds them to the
\* used ones; sample_more_5_node selects exactly min(5, number of unused
\* indices) pairwise different indices, none of them used before, and adds them
\* to the used ones; with no unused index left it returns an empty batch,
\* leaves used_player_indices as it is and hands over to fetch_meta_battles.
C15_BatchSizes ==
    [][LET unused == PopulationIndices \ used_player_indices
       IN  /\ pc = "sample_initial_50" =>
                /\ Len(DrawnBatch) = Min(INITIAL_SAMPLE_SIZE, Len(top_players))
                /\ Cardinality(SeqToSet(DrawnBatch)) = Len(DrawnBatch)
                /\ SeqToSet(DrawnBatch) \subseteq PopulationIndices
                /\ used_player_indices' = used_player_indices \cup SeqToSet(DrawnBatch)
                /\ selected_players' = PlayersAt(top_players, DrawnBatch)
           /\ pc = "sample_more_5" =>
                /\ Len(DrawnBatch) = Min(MORE_SAMPLE_SIZE, Cardinality(unused))
                /\ Cardinality(SeqToSet(DrawnBatch)) = Len(DrawnBatch)
                /\ SeqToSet(DrawnBatch) \subseteq unused
                /\ used_player_indices' = used_player_indices \cup SeqToSet(DrawnBatch)
                /\ selected_players' = PlayersAt(top_players, DrawnBatch)
                /\ unused = {} =>
                      /\ selected_players' = << >>
                      /\ used_player_indices' = used_player_indices
                      /\ pc' = "fetch_meta_battles"]_vars

\* C15 witness: sample_more_5_node was called on a non-empty population with
\* every index used and returned an empty batch.
C15_Witness ==
    /\ LastNode = "sample_more_5"
    /\ top_players # << >>
    /\ used_player_indices = PopulationIndices
    /\ selected_players = << >>
    /\ notes[Len(notes)].kind = "no_unused"

\* C17: audit trail.  Every execution of every node, on each of its branches,
\* appends at least one note and keeps the earlier notes in place: the notes
\* before are a strict prefix of the notes after.
C17_AuditTrailGrows ==
    [][/\ Len(notes') > Len(notes)
       /\ SubSeq(notes', 1, Len(notes)) = notes
       /\ \A i \in (Len(notes) + 1)..Len(notes') : notes'[i].node = pc]_vars

\* C17 witness: fetch_meta_battles_node was called with earlier notes and an
\* empty batch.
C17_Witness ==
    /\ LastNode = "fetch_meta_battles"
    /\ Len(notes) >= 2
    /\ notes[Len(notes)].kind = "nothing_to_fetch"

\* C21: frame conditions of the stages.  The two sampling stages leave
\* meta_raw_battles, fetched_player_tags, meta_analytics and stop_decision
\* unchanged; fetch_meta_battles leaves top_players, used_player_indices,
\* loop_count and stop_decision unchanged; compute_meta_analytics changes only
\* meta_analytics and notes; check_enough_battles changes only is_balanced,
\* stop_decision and notes; top_players never changes once fetch_top_players
\* has run.
C21_FrameConditions ==
    [][/\ pc \in {"sample_initial_50", "sample_more_5"} =>
             UNCHANGED <<meta_raw_battles, fetched_player_tags, meta_analytics, stop_decision>>
       /\ pc = "fetch_meta_battles" =>
             UNCHANGED <<top_players, used_player_indices, loop_count, stop_decision>>
       /\ pc = "compute_meta_analytics" =>
             UNCHANGED <<top_players, selected_players, used_player_indices,
                         fetched_player_tags, meta_raw_battles, normalized_battles,
                         is_balanced, loop_count, stop_decision>>
       /\ pc = "check_enough_battles" =>
             UNCHANGED <<top_players, selected_players, used_player_indices,
                         fetched_player_tags, meta_raw_battles, normalized_battles,
                         meta_analytics, loop_count>>
       /\ Executions("fetch_top_players") >= 1 => top_players' = top_players]_vars

\* C21 witness: each of the stages has run on a state with players, used
\* indices, fetched tags, a Cohort, analytics and a decision to preserve, and
\* the sampling stage after them has just run again.
C21_Witness ==
    /\ LastNode = "sample_more_5"
    /\ loop_count >= 2
    /\ fetched_player_tags # {}
    /\ meta_raw_battles # << >>
    /\ stop_decision = "need_more"
    /\ meta_analytics # EmptyDict

UserStages == <<"fetch_battlelog", "filter_and_normalize", "compute_user_analytics">>

\* The notes written by the stages of the user analytics workflow, in order
StageNotes == SelectSeq(notes, LAMBDA n : n.node \in SeqToSet(UserStages))

\* The stages that have returned
Completed == Len(history) - (IF error = "" THEN 0 ELSE 1)

\* C22: the user analytics workflow runs fetch_battlelog, filter_and_normalize,
\* compute_user_analytics in that order and ends.  user_analytics is written
\* only when the tag is present, the fetched battlelog is non-empty and the
\* filtered list is non-empty, and is then the analytics of the filtered list;
\* otherwise the first stage whose input is missing or empty raises
\* ValueError, no later stage runs and user_analytics stays unwritten.  Every
\* stage that returns adds one note, after the notes there were, in stage order.
C22_UserWorkflow ==
    /\ Len(history) <= Len(UserStages)
    /\ \A i \in 1..Len(history) : history[i] = UserStages[i]
    /\ pc = (IF error # "" THEN "RAISED"
             ELSE IF Len(history) = Len(UserStages) THEN "END"
             ELSE UserStages[Len(history) + 1])
    /\ (user_analytics # << >>) <=> (pc = "END")
    /\ pc = "END" =>
          /\ player_tag # NoTag
          /\ battles_raw # << >>
          /\ battles_filtered # << >>
          /\ battles_filtered = filter_and_normalize_ranked_1v1(battles_raw)
          /\ user_analytics = compute_user_analytics(battles_filtered)
    /\ (error = "ValueError") <=>
          \/ Len(history) = 1 /\ player_tag = NoTag
          \/ Len(history) = 2 /\ battles_raw = << >>
          \/ Len(history) = 3 /\ battles_filtered = << >>
    /\ Len(StageNotes) = Completed
    /\ \A i \in 1..Len(StageNotes) : StageNotes[i].node = UserStages[i]
    /\ SubSeq(notes, Len(notes) - Len(StageNotes) + 1, Len(notes)) = StageNotes
    /\ Len(notes) - Len(StageNotes) <= 1

\* C22 witness: a run that ended with user_analytics after filtering dropped a
\* battle, on a state that came with an earlier note.
C22_Witness ==
    /\ pc = "END"
    /\ Len(battles_filtered) < Len(battles_raw)
    /\ Len(notes) = Len(UserStages) + 1

====
